---- MODULE Spec2Model ----
(***************************************************************************)
(* gb-flamegraph: the profiling engine (BenchmarkRunner), the NOI symbol   *)
(* map and region table, and the speedscope trace emitter.                 *)
(*                                                                         *)
(* Six specifications are given:                                           *)
(*   Spec       a whole BenchmarkRunner.run(): initialize, the frame       *)
(*              loop, the emulator's per-instruction and interrupt hooks,  *)
(*              shutdown and finalizeTrace;                                *)
(*   SpecTrace  the trace emitter used directly: addOpenEvent,             *)
(*              addCloseEvent and finalizeTrace on arbitrary arguments;    *)
(*   SpecRefinalize  the same emitter with addCapture and with             *)
(*              finalizeTrace called twice;                                *)
(*   SpecNoi    initialize on arbitrary memory-map text (parseNoi,         *)
(*              generateFunctionRegions, the symbol index) followed by     *)
(*              calls of the PC resolver;                                  *)
(*   SpecHooks  the hooks of the first frame of a run with symbols, with   *)
(*              the cycle counter advancing between them;                  *)
(*   SpecInput  the frame loop of a run that replays a list of input       *)
(*              events.                                                    *)
(***************************************************************************)
EXTENDS Integers, Sequences, FiniteSets, TLC

VARIABLES
    hasNoi,            \* options.noiData is supplied (non-empty text)
    noiData,           \* the accepted DEF lines of options.noiData, in order
    captureMode,       \* this.captureMode
    noiLookup,         \* this.noiLookup
    regionsByBank,     \* this.regionsByBank
    noiIndex,          \* this.noiIndex
    endValue,          \* this.speedscope.profiles[0].endValue
    captures,          \* this.speedscope.captures
    startFrame,        \* this.startFrame
    frames,            \* this.frames
    inputData,         \* this.inputData: the array of entries (parseInput returns
                       \* an array as it is)
    keyCalls,          \* the calls of gb.input.releaseKey and pressKey made so far
    currentFnRegion,   \* this.currentFnRegion (Null or a region)
    fnStack,           \* this.fnStack
    interruptStack,    \* this.interruptStack
    events,            \* this.speedscope.profiles[0].events
    framesElapsed,     \* this.framesElapsed
    c,                 \* this.gb.cpu.clock.c where the run reads it: in Spec the
                       \* hooks are observed at the first cycle of a frame
    i,                 \* loop index of run()
    captureStartTime,  \* local of run()
    frameStartTime,    \* local of run()
    phase,             \* position of run() / of the emitter's user
    rawEvents,         \* history: the events handed to finalizeTrace
    finalStart,        \* history: the captureStartTime handed to finalizeTrace
    frameStarts,       \* history: frameStartTime of every frame begun so far
    preempted,         \* history: the call stack found by the dispatch that began
                       \* the interrupt in flight, and where its frame is
    last               \* history: the hook that has just run and the state it found

config  == <<hasNoi, noiData, captureMode, startFrame, frames, inputData>>
tables  == <<noiLookup, regionsByBank, noiIndex>>
output  == <<endValue, captures>>
engine  == <<currentFnRegion, fnStack, interruptStack>>
driver  == <<framesElapsed, c, i, captureStartTime, frameStartTime, keyCalls>>
history == <<rawEvents, finalStart, frameStarts, preempted, last>>
vars    == <<config, tables, engine, events, output, driver, phase, history>>

---------------------------------------------------------------------------
(* Bounds of the model *)

MaxFrames     == 2      \* startFrame + frames is at most MaxFrames
MaxEvents     == 2      \* a hook may open a frame while fewer events were emitted
MaxApiEvents  == 3      \* SpecTrace: events appended before finalizeTrace
MaxLines      == 2      \* SpecNoi: accepted lines of the memory-map text
MaxHookEvents == 4      \* SpecHooks: events the hooks emit
MaxInputs     == 2      \* SpecInput: entries of options.inputData

(* Program constants *)

CYCLES_PER_FRAME == 70256
RETI             == 217        \* 0xd9
NOP              == 0          \* any opcode other than RETI
BANK_SPLIT       == 16384      \* 0x4000
ADDR_MASK        == 65536      \* fullAddr & 0xffff  ==  fullAddr % 65536
BANK_MASK        == 256        \* (fullAddr >> 16) & 0xff
BANK0_MAX        == 16383      \* 0x3fff
BANKN_MAX        == 32767      \* 0x7fff
Undefined        == -1         \* the value of a missing noiIndex entry

IGNORE_SYMBOLS == {".add_VBL", ".add_int", "_display_off"}

INTERRUPTS ==
    << [addr |-> 64, name |-> "VBL", symbol |-> "[INTERRUPT] VBL"],
       [addr |-> 72, name |-> "LCD", symbol |-> "[INTERRUPT] LCD"],
       [addr |-> 80, name |-> "TIM", symbol |-> "[INTERRUPT] TIM"],
       [addr |-> 88, name |-> "SIO", symbol |-> "[INTERRUPT] SIO"],
       [addr |-> 96, name |-> "JOY", symbol |-> "[INTERRUPT] JOY"] >>

Null == [null |-> TRUE]        \* JavaScript null / undefined region

---------------------------------------------------------------------------
(* Generic helpers *)

Max(a, b) == IF a >= b THEN a ELSE b
Min(a, b) == IF a <= b THEN a ELSE b

\* Array.prototype.sort is stable; with a consistent comparator its result
\* is that of a stable insertion sort: each element is inserted after the
\* last element that does not compare greater than it. notGreater is the set
\* of positions of sorted whose element does not compare greater than e.
InsertStable(sorted, e, notGreater) ==
    LET n == Len(sorted)
        p == IF notGreater = {} THEN 0
             ELSE CHOOSE k \in notGreater : \A m \in notGreater : m <= k
    IN  SubSeq(sorted, 1, p) \o <<e>> \o SubSeq(sorted, p + 1, n)

---------------------------------------------------------------------------
(* noi-parser.js *)

\* A memory-map text is the sequence of its accepted lines (those that pass
\* the tests of parseNoi's loop head). A line is "DEF <symbol> <hex>"; its
\* symbol is <prefix><name><suffix>, where prefix is "" or a file prefix
\* "F...$" and suffix is "" or starts at a "$"; full is parseInt(<hex>, 16).

\* The memory map of the profiled ROM: _foo is defined in bank 0 and, as a
\* file-local function of another module, in bank 3.
NoiText ==
    << [prefix |-> "",       name |-> "_main",    suffix |-> "",     full |-> 336],    \* 0x000150
       [prefix |-> "",       name |-> "_foo",     suffix |-> "",     full |-> 512],    \* 0x000200
       [prefix |-> "",       name |-> ".add_VBL", suffix |-> "",     full |-> 768],    \* 0x000300
       [prefix |-> "Fmain$", name |-> "_x",       suffix |-> "$0$0", full |-> 82176],  \* 0x014100
       [prefix |-> "",       name |-> "_x",       suffix |-> "",     full |-> 82176],  \* 0x014100
       [prefix |-> "Fmod$",  name |-> "_foo",     suffix |-> "$0$0", full |-> 213248] >> \* 0x034100

\* The lines the texts of SpecNoi are made of: a symbol at the VBL vector, a
\* bank-0 function, one address defined twice, the same name in another
\* bank, a variable in RAM and a symbol above the banked ROM window.
NoiLines ==
    { [prefix |-> "",       name |-> "_isr",  suffix |-> "",     full |-> 64],      \* 0x000040
      [prefix |-> "",       name |-> "_main", suffix |-> "",     full |-> 336],     \* 0x000150
      [prefix |-> "Fmain$", name |-> "_x",    suffix |-> "$0$0", full |-> 82176],   \* 0x014100
      [prefix |-> "",       name |-> "_y",    suffix |-> "",     full |-> 82176],   \* 0x014100
      [prefix |-> "",       name |-> "_x",    suffix |-> "",     full |-> 147712],  \* 0x024100
      [prefix |-> "",       name |-> "_var",  suffix |-> "",     full |-> 49312],   \* 0x00C0A0
      [prefix |-> "",       name |-> "_far",  suffix |-> "",     full |-> 98304] }  \* 0x018000

\* symbol.replace(/^F([^$]+)\$/, "").replace(/\$.*/, ""): the file prefix and
\* everything from the first remaining "$" are cut off
SymbolClean(line) == line.name

LineAddr(line) == line.full % ADDR_MASK
LineBank(line) ==
    IF LineAddr(line) < BANK_SPLIT THEN 0
    ELSE (line.full \div ADDR_MASK) % BANK_MASK

RECURSIVE ParseLines(_, _, _)
ParseLines(lines, result, usedAddr) ==
    IF lines = <<>> THEN result
    ELSE LET line == Head(lines)
             key  == <<LineBank(line), LineAddr(line)>>
         IN  IF key \notin usedAddr
             THEN ParseLines(Tail(lines),
                             Append(result, [symbol |-> SymbolClean(line),
                                             addr   |-> LineAddr(line),
                                             bank   |-> LineBank(line)]),
                             usedAddr \cup {key})
             ELSE ParseLines(Tail(lines), result, usedAddr)

parseNoi(lines) ==
    ParseLines(lines,
               [k \in 1..Len(INTERRUPTS) |->
                   [symbol |-> INTERRUPTS[k].symbol,
                    addr   |-> INTERRUPTS[k].addr,
                    bank   |-> 0]],
               {})

CmpAddr(a, b) == a.addr - b.addr

\* symbols.sort((a, b) => a.addr - b.addr)
RECURSIVE SortByAddr(_)
SortByAddr(s) ==
    IF s = <<>> THEN <<>>
    ELSE LET sorted == SortByAddr(SubSeq(s, 1, Len(s) - 1))
             e      == s[Len(s)]
         IN  InsertStable(sorted, e,
                          {k \in 1..Len(sorted) : CmpAddr(sorted[k], e) <= 0})

BankMax(bank) == IF bank = 0 THEN BANK0_MAX ELSE BANKN_MAX

\* The regions of one bank: sorted by addr, each ending before the next.
BankRegions(lookup, bank) ==
    LET sorted == SortByAddr(SelectSeq(lookup, LAMBDA s : s.bank = bank))
    IN  [k \in 1..Len(sorted) |->
            [symbol |-> sorted[k].symbol,
             addr   |-> sorted[k].addr,
             bank   |-> sorted[k].bank,
             end    |-> IF k < Len(sorted)
                        THEN Min(BankMax(bank), sorted[k + 1].addr - 1)
                        ELSE BankMax(bank)]]

\* generateFunctionRegions(noiLookup), kept grouped by bank as initialize
\* regroups it into regionsByBank: a bank has an entry iff a symbol has it
generateFunctionRegions(lookup) ==
    [bank \in {lookup[k].bank : k \in 1..Len(lookup)} |-> BankRegions(lookup, bank)]

---------------------------------------------------------------------------
(* BenchmarkRunner.initialize: the tables it builds once from noiData *)

\* values of mbc.romBankNumber the emulator reports
Banks == {1, 2}

\* for (i...) this.noiIndex[this.noiLookup[i].symbol] = i: the last position
\* holding a symbol wins; positions are 0-based
BuildNoiIndex(lookup) ==
    [symbol \in {lookup[k].symbol : k \in 1..Len(lookup)} |->
        (CHOOSE k \in 1..Len(lookup) :
            /\ lookup[k].symbol = symbol
            /\ \A m \in 1..Len(lookup) : lookup[m].symbol = symbol => m <= k) - 1]

\* the tables of the profiled ROM, built once
ParsedNoi     == parseNoi(NoiText)
ParsedRegions == generateFunctionRegions(ParsedNoi)
ParsedIndex   == BuildNoiIndex(ParsedNoi)

\* this.noiLookup
NoiLookup == noiLookup

\* this.regionsByBank[bank]; <<>> stands for a bank without entry (undefined)
RegionsByBank(bank) ==
    IF bank \in DOMAIN regionsByBank THEN regionsByBank[bank] ELSE <<>>

\* this.noiIndex[symbol]; undefined for a symbol without entry
NoiIndex(symbol) ==
    IF symbol \in DOMAIN noiIndex THEN noiIndex[symbol] ELSE Undefined

\* createSpeedscopeTrace(this.noiLookup).shared.frames
SharedFrames == [k \in 1..Len(NoiLookup) |-> [name |-> NoiLookup[k].symbol]]

---------------------------------------------------------------------------
(* speedscope.js: the trace emitter *)

\* Every event carries n, its emission number: the identity of the object.
addOpenEvent(evs, frameIndex, at) ==
    Append(evs, [type |-> "O", at |-> at, frame |-> frameIndex, n |-> Len(evs)])

addCloseEvent(evs, frameIndex, at, start) ==
    Append(evs, [type |-> "C", at |-> at, frame |-> frameIndex,
                 start |-> start, n |-> Len(evs)])

\* addCapture(trace, src, at, frameNumber); src is the host's image and is
\* left out
addCapture(caps, at, frameNumber) ==
    Append(caps, [at |-> at, frameNumber |-> frameNumber])

\* a wrong comparator, to test the ordering property: on equal timestamps
\* the close is put before the open
CmpEventCloseFirst(a, b) ==
    IF a.at # b.at THEN a.at - b.at
    ELSE IF a.type = b.type THEN 0
    ELSE IF a.type = "O" THEN 1 ELSE -1

\* the comparator of events.sort in finalizeTrace
CmpEvent(a, b) ==
    IF a.at # b.at THEN a.at - b.at
    ELSE IF a.type = b.type THEN 0
    ELSE IF a.type = "O" THEN -1 ELSE 1

RECURSIVE SortEvents(_)
SortEvents(evs) ==
    IF evs = <<>> THEN <<>>
    ELSE LET sorted == SortEvents(SubSeq(evs, 1, Len(evs) - 1))
             e      == evs[Len(evs)]
         IN  InsertStable(sorted, e,
                          {k \in 1..Len(sorted) : CmpEvent(sorted[k], e) <= 0})

\* a wrong marking, to test the filter properties: each event of the pair is
\* kept by its own timestamp
MarkPairByOwnAt(evs, include, openIndex, k, capStart) ==
    include \cup {x \in {openIndex, k} : evs[x].at >= capStart}

\* a wrong marking, to test the filter properties: a pair that closes
\* exactly at the capture start is dropped
MarkPairStrict(evs, include, openIndex, k, capStart) ==
    IF evs[k].at > capStart THEN include \cup {openIndex, k} ELSE include

\* if (event.at >= captureStartTime) { include[openIndex] = include[i] = true }
MarkPair(evs, include, openIndex, k, capStart) ==
    IF evs[k].at >= capStart THEN include \cup {openIndex, k} ELSE include

\* The walk of finalizeTrace over the sorted events from index k on:
\* stackByFrame maps a frame index to its stack of open-event indices,
\* include is the set of indices marked true. Returns the final
\* [include, stackByFrame].

RECURSIVE FilterWalk(_, _, _, _, _)
FilterWalk(evs, k, include, stackByFrame, capStart) ==
    IF k > Len(evs) THEN [include |-> include, stackByFrame |-> stackByFrame]
    ELSE LET event == evs[k]
             stack == IF event.frame \in DOMAIN stackByFrame
                      THEN stackByFrame[event.frame] ELSE <<>>
         IN  IF event.type = "O"
             THEN FilterWalk(evs, k + 1, include,
                             [f \in DOMAIN stackByFrame \cup {event.frame} |->
                                 IF f = event.frame THEN Append(stack, k)
                                 ELSE stackByFrame[f]],
                             capStart)
             ELSE IF stack = <<>>
             THEN FilterWalk(evs, k + 1, include, stackByFrame, capStart)
             ELSE FilterWalk(evs, k + 1,
                             MarkPair(evs, include, stack[Len(stack)], k, capStart),
                             [stackByFrame EXCEPT ![event.frame] =
                                 SubSeq(stack, 1, Len(stack) - 1)],
                             capStart)

RECURSIVE KeepIncluded(_, _, _)
KeepIncluded(evs, k, include) ==
    IF k > Len(evs) THEN <<>>
    ELSE (IF k \in include THEN <<evs[k]>> ELSE <<>>) \o KeepIncluded(evs, k + 1, include)

\* events.filter((_, idx) => include[idx]) after the walk, the opens left on
\* the stacks included
FilterEvents(sorted, capStart) ==
    LET w     == FilterWalk(sorted, 1, {}, << >>, capStart)
        opens == UNION {{w.stackByFrame[f][k] : k \in 1..Len(w.stackByFrame[f])}
                        : f \in DOMAIN w.stackByFrame}
    IN  KeepIncluded(sorted, 1, w.include \cup opens)

\* finalizeTrace(trace, captureStartTime): the events it leaves; hasStart is
\* captureStartTime != null
finalizeTrace(evs, hasStart, capStart) ==
    IF hasStart THEN FilterEvents(SortEvents(evs), capStart)
    ELSE SortEvents(evs)

\* Math.max(...includedEvents.map((e) => e.at))
MaxAt(evs) ==
    CHOOSE m \in {evs[k].at : k \in 1..Len(evs)} :
        \A k \in 1..Len(evs) : evs[k].at <= m

\* the end of finalizeTrace: profiles[0].endValue after it, given the value
\* before and the events left; it is assigned only if an event is left
EndValue(prev, included) ==
    IF Len(included) > 0 THEN MaxAt(included) ELSE prev

---------------------------------------------------------------------------
(* BenchmarkRunner: the PC resolver and the call-stack engine.             *)
(* The engine operators work on st = [fnStack, interruptStack, events,     *)
(* currentFnRegion]; clockNow is getGBTime() at the hook. The logging      *)
(* fields childPushed and openPrinted of a frame are left out: nothing but *)
(* the verbose log reads them.                                             *)

getGBTime == c + framesElapsed * CYCLES_PER_FRAME

\* bankRegions.find((fn) => pc >= fn.addr && pc <= fn.end)
FindRegion(bankRegions, pc) ==
    LET hits == {k \in 1..Len(bankRegions) :
                    pc >= bankRegions[k].addr /\ pc <= bankRegions[k].end}
    IN  IF hits = {} THEN Null
        ELSE bankRegions[CHOOSE k \in hits : \A m \in hits : k <= m]

\* a wrong resolver, to test the resolver property: the cached region is
\* returned whatever ROM bank is mapped
getCurrentFunctionRegionAnyBank(cur, pc, bank) ==
    IF cur # Null /\ pc >= cur.addr /\ pc <= cur.end
    THEN cur
    ELSE LET targetBank  == IF pc < BANK_SPLIT THEN 0 ELSE bank
             bankRegions == RegionsByBank(targetBank)
         IN  IF bankRegions = <<>> THEN Null ELSE FindRegion(bankRegions, pc)

getCurrentFunctionRegion(cur, pc, bank) ==
    IF /\ cur # Null
       /\ pc >= cur.addr /\ pc <= cur.end
       /\ (pc < BANK_SPLIT \/ cur.bank = bank)
    THEN cur
    ELSE LET targetBank  == IF pc < BANK_SPLIT THEN 0 ELSE bank
             bankRegions == RegionsByBank(targetBank)
         IN  IF bankRegions = <<>> THEN Null ELSE FindRegion(bankRegions, pc)

fnStackContains(stack, symbol) ==
    \E k \in 1..Len(stack) : stack[k].symbol = symbol

NewFrame(symbol, addr, clockNow, depth) ==
    [symbol |-> symbol, addr |-> addr, clock |-> clockNow, indent |-> depth]

pushFrame(st, fn, clockNow) ==
    [st EXCEPT
        !.fnStack = Append(@, NewFrame(fn.symbol, fn.addr, clockNow, Len(@))),
        !.events  = addOpenEvent(@, NoiIndex(fn.symbol), clockNow)]

\* one iteration of the loop of popFramesUntil: the close is clamped here
PopClamped(st, clockNow) ==
    LET poppedFn == st.fnStack[Len(st.fnStack)]
    IN  [st EXCEPT
            !.fnStack = SubSeq(@, 1, Len(@) - 1),
            !.events  = addCloseEvent(@, NoiIndex(poppedFn.symbol),
                                      Max(clockNow, poppedFn.clock), poppedFn.clock)]

\* a wrong unwinding, to test the correspondence of events and frames: the
\* frame is popped without a close event
PopUnclampedSilent(st, clockNow) ==
    [st EXCEPT !.fnStack = SubSeq(@, 1, Len(@) - 1)]

\* one iteration of the loop of popFramesIncluding: the close is at clockNow
PopUnclamped(st, clockNow) ==
    LET poppedFn == st.fnStack[Len(st.fnStack)]
    IN  [st EXCEPT
            !.fnStack = SubSeq(@, 1, Len(@) - 1),
            !.events  = addCloseEvent(@, NoiIndex(poppedFn.symbol),
                                      clockNow, poppedFn.clock)]

\* a wrong unwinding, to test the shutdown property: at most one frame is
\* popped
PopUntilOnce(st, fn, clockNow) ==
    IF /\ Len(st.fnStack) > 0
       /\ (fn = Null \/ st.fnStack[Len(st.fnStack)].symbol # fn.symbol)
    THEN PopClamped(st, clockNow)
    ELSE st

RECURSIVE PopUntilLoop(_, _, _)
PopUntilLoop(st, fn, clockNow) ==
    IF /\ Len(st.fnStack) > 0
       /\ (fn = Null \/ st.fnStack[Len(st.fnStack)].symbol # fn.symbol)
    THEN PopUntilLoop(PopClamped(st, clockNow), fn, clockNow)
    ELSE st

\* popFramesUntil(fn); fn = Null is the call without argument
popFramesUntil(st, fn, clockNow) ==
    IF fn # Null /\ ~fnStackContains(st.fnStack, fn.symbol) THEN st
    ELSE PopUntilLoop(st, fn, clockNow)

RECURSIVE PopIncludingLoop(_, _, _)
PopIncludingLoop(st, fn, clockNow) ==
    IF Len(st.fnStack) > 0
    THEN LET poppedFn == st.fnStack[Len(st.fnStack)]
             next     == PopUnclamped(st, clockNow)
         IN  IF poppedFn.symbol = fn.symbol THEN next
             ELSE PopIncludingLoop(next, fn, clockNow)
    ELSE st

popFramesIncluding(st, fn, clockNow) ==
    IF ~fnStackContains(st.fnStack, fn.symbol) THEN st
    ELSE PopIncludingLoop(st, fn, clockNow)

\* while (this.interruptStack.length > 0) { pop; popFramesIncluding }
RECURSIVE PopInterruptsLoop(_, _)
PopInterruptsLoop(st, clockNow) ==
    IF Len(st.interruptStack) > 0
    THEN LET interrupted == st.interruptStack[Len(st.interruptStack)]
             popped      == [st EXCEPT !.interruptStack = SubSeq(@, 1, Len(@) - 1)]
         IN  PopInterruptsLoop(popFramesIncluding(popped, interrupted, clockNow), clockNow)
    ELSE st

\* a wrong unwinding, to test the RETI properties: a RETI without an
\* interrupt in flight pops the top frame
popInterruptsUnguarded(st, clockNow) ==
    IF Len(st.interruptStack) > 0 THEN PopInterruptsLoop(st, clockNow)
    ELSE IF Len(st.fnStack) > 0 THEN PopUnclamped(st, clockNow) ELSE st

popInterrupts(st, clockNow) ==
    IF Len(st.interruptStack) > 0 THEN PopInterruptsLoop(st, clockNow) ELSE st

\* a wrong mid-function branch, to test the pop-to property: the frame landed
\* on is popped with the frames above it
MidFunctionPopIncluding(st, newFn, pc, clockNow) ==
    IF fnStackContains(st.fnStack, newFn.symbol)
    THEN [popFramesIncluding(st, newFn, clockNow) EXCEPT !.currentFnRegion = newFn]
    ELSE IF Len(st.interruptStack) > 0 THEN st
    ELSE IF pc >= BANK_SPLIT
    THEN [pushFrame(st, newFn, clockNow) EXCEPT !.currentFnRegion = newFn]
    ELSE [st EXCEPT !.currentFnRegion = newFn]

\* a wrong mid-function branch, to test the landings in banked code: a
\* function that is not on the stack is cached but gets no frame
MidFunctionNoPush(st, newFn, pc, clockNow) ==
    IF fnStackContains(st.fnStack, newFn.symbol)
    THEN [popFramesUntil(st, newFn, clockNow) EXCEPT !.currentFnRegion = newFn]
    ELSE IF Len(st.interruptStack) > 0 THEN st
    ELSE [st EXCEPT !.currentFnRegion = newFn]

\* a wrong mid-function branch, to test the landings during an interrupt:
\* the interrupt stack is not looked at
MidFunctionAnyContext(st, newFn, pc, clockNow) ==
    IF fnStackContains(st.fnStack, newFn.symbol)
    THEN [popFramesUntil(st, newFn, clockNow) EXCEPT !.currentFnRegion = newFn]
    ELSE IF pc >= BANK_SPLIT
    THEN [pushFrame(st, newFn, clockNow) EXCEPT !.currentFnRegion = newFn]
    ELSE [st EXCEPT !.currentFnRegion = newFn]

\* "Jumped to mid-function" branch of onAfterInstruction
MidFunction(st, newFn, pc, clockNow) ==
    IF fnStackContains(st.fnStack, newFn.symbol)
    THEN [popFramesUntil(st, newFn, clockNow) EXCEPT !.currentFnRegion = newFn]
    ELSE IF Len(st.interruptStack) > 0 THEN st
    ELSE IF pc >= BANK_SPLIT
    THEN [pushFrame(st, newFn, clockNow) EXCEPT !.currentFnRegion = newFn]
    ELSE [st EXCEPT !.currentFnRegion = newFn]

\* a wrong hook, to test the ignored symbols: there is no test for them
onAfterInstructionNoIgnore(st, opcode, pc, bank, clockNow) ==
    IF opcode = RETI THEN popInterrupts(st, clockNow)
    ELSE LET newFn == getCurrentFunctionRegion(st.currentFnRegion, pc, bank)
         IN  IF newFn = Null \/ newFn = st.currentFnRegion THEN st
             ELSE IF pc = newFn.addr
             THEN [pushFrame(st, newFn, clockNow) EXCEPT !.currentFnRegion = newFn]
             ELSE MidFunction(st, newFn, pc, clockNow)

\* a wrong hook, to test the function-entry property: while an interrupt is
\* in flight an entry at a region's first address is not recorded
onAfterInstructionQuietInHandler(st, opcode, pc, bank, clockNow) ==
    IF opcode = RETI THEN popInterrupts(st, clockNow)
    ELSE LET newFn == getCurrentFunctionRegion(st.currentFnRegion, pc, bank)
         IN  IF newFn = Null \/ newFn = st.currentFnRegion THEN st
             ELSE IF newFn.symbol \in IGNORE_SYMBOLS THEN st
             ELSE IF pc = newFn.addr /\ Len(st.interruptStack) > 0 THEN st
             ELSE IF pc = newFn.addr
             THEN [pushFrame(st, newFn, clockNow) EXCEPT !.currentFnRegion = newFn]
             ELSE MidFunction(st, newFn, pc, clockNow)

onAfterInstruction(st, opcode, pc, bank, clockNow) ==
    IF opcode = RETI THEN popInterrupts(st, clockNow)
    ELSE LET newFn == getCurrentFunctionRegion(st.currentFnRegion, pc, bank)
         IN  IF newFn = Null \/ newFn = st.currentFnRegion THEN st
             ELSE IF newFn.symbol \in IGNORE_SYMBOLS THEN st
             ELSE IF pc = newFn.addr
             THEN [pushFrame(st, newFn, clockNow) EXCEPT !.currentFnRegion = newFn]
             ELSE MidFunction(st, newFn, pc, clockNow)

onInterrupt(st, interrupt, clockNow) ==
    LET vec    == INTERRUPTS[interrupt + 1]
        popped == popInterrupts(st, clockNow)
    IN  [popped EXCEPT
            !.interruptStack = Append(@, vec),
            !.fnStack = Append(@, NewFrame(vec.symbol, vec.addr, clockNow, Len(@))),
            !.events  = addOpenEvent(@, NoiIndex(vec.symbol), clockNow)]

---------------------------------------------------------------------------
(* The emulator's side of the hooks: what it may report *)

\* program counters after an instruction: the VBL vector (0x0040), the entry
\* and a later address of _main, the entries of _foo and .add_VBL (bank 0),
\* the entry and a later address of _x (bank 1; no region in bank 2)
PCs == {64, 336, 337, 512, 768, 16640, 16641}

\* (pc, romBankNumber) pairs: below 0x4000 the bank is never read by the hook,
\* so one bank stands for all
HookInputs == {in \in PCs \X Banks : in[1] < BANK_SPLIT => in[2] = 1}

\* the interrupts dispatched: VBL and LCD
Vectors == {0, 1}

\* the values of options.startFrame
StartFrames == {0, 1}

\* the values of options.captureMode: one that records captures in the trace
\* and one that does not; the host's onFrameComplete is supplied and returns
\* a capture for every frame it is asked for
CaptureModes == {"all", "exit"}

EngineState ==
    [fnStack |-> fnStack, interruptStack |-> interruptStack,
     events |-> events, currentFnRegion |-> currentFnRegion]

Snapshot(op, pc, bank, vec) ==
    [op |-> op, pc |-> pc, bank |-> bank, vec |-> vec, clock |-> getGBTime,
     fnStack |-> fnStack, interruptStack |-> interruptStack,
     currentFnRegion |-> currentFnRegion, events |-> events,
     preempted |-> preempted]

SetEngine(st) ==
    /\ fnStack' = st.fnStack
    /\ interruptStack' = st.interruptStack
    /\ events' = st.events
    /\ currentFnRegion' = st.currentFnRegion

NotInterrupted == [inFlight |-> FALSE, fnStack |-> <<>>, frameAt |-> 0]

\* the record of the interrupt in flight after a dispatch that led to st: the
\* call stack the first dispatch interrupted and the position of the frame
\* this dispatch pushed
Dispatched(st) ==
    [inFlight |-> TRUE,
     fnStack  |-> IF interruptStack = <<>> THEN fnStack ELSE preempted.fnStack,
     frameAt  |-> Len(st.fnStack)]

\* the same record after an instruction hook that led to st: the frame of
\* the dispatch is gone once the stack is shorter than its position
StillDispatched(st) ==
    IF preempted.frameAt > Len(st.fnStack)
    THEN [preempted EXCEPT !.frameAt = 0]
    ELSE preempted

---------------------------------------------------------------------------
(* BenchmarkRunner.run *)

totalFrames == startFrame + frames

\* the state a constructed runner is in, but for its options
Constructed ==
    /\ noiLookup = <<>>
    /\ regionsByBank = << >>
    /\ noiIndex = << >>
    /\ currentFnRegion = Null
    /\ fnStack = <<>>
    /\ interruptStack = <<>>
    /\ events = <<>>
    /\ endValue = 0
    /\ captures = <<>>
    /\ framesElapsed = 0
    /\ keyCalls = <<>>
    /\ c = 0
    /\ i = 0
    /\ captureStartTime = 0
    /\ frameStartTime = 0
    /\ rawEvents = <<>>
    /\ finalStart = 0
    /\ frameStarts = <<>>
    /\ preempted = NotInterrupted
    /\ last = [op |-> "none"]

Init ==
    /\ hasNoi \in BOOLEAN
    /\ noiData = IF hasNoi THEN NoiText ELSE <<>>
    /\ captureMode \in CaptureModes
    /\ startFrame \in StartFrames
    /\ frames \in 1..(MaxFrames - startFrame)
    /\ inputData = <<>>
    /\ phase = "new"
    /\ Constructed

\* this.initialize(): the tables are built only if noiData is supplied
Initialize ==
    /\ phase = "new"
    /\ noiLookup' = IF hasNoi THEN parseNoi(noiData) ELSE <<>>
    /\ regionsByBank' = IF hasNoi THEN generateFunctionRegions(noiLookup') ELSE << >>
    /\ noiIndex' = IF hasNoi THEN BuildNoiIndex(noiLookup') ELSE << >>
    /\ phase' = "loop"
    /\ UNCHANGED <<config, engine, events, output, driver, history>>

\* the calls one list of keys leads to, at loop index frame
KeyCalls(op, keys, frame) ==
    [k \in 1..Len(keys) |-> [at |-> frame, op |-> op, key |-> keys[k]]]

\* "Process input" of the loop body: the entry inputData.find() returns for
\* loop index frame is applied, its releases first
ProcessInput(data, frame) ==
    LET hits == {k \in 1..Len(data) : data[k].frame = frame}
    IN  IF hits = {} THEN <<>>
        ELSE LET frameInput == data[CHOOSE k \in hits : \A m \in hits : k <= m]
             IN  KeyCalls("release", frameInput.release, frame)
                 \o KeyCalls("press", frameInput.press, frame)

\* the head of the frame loop, up to the call of gb.cpu.frame()
StartFrame ==
    /\ phase = "loop"
    /\ i < totalFrames
    /\ keyCalls' = keyCalls \o ProcessInput(inputData, i)
    /\ frameStartTime' = getGBTime
    /\ frameStarts' = Append(frameStarts, getGBTime)
    /\ phase' = "frame"
    /\ UNCHANGED <<config, tables, engine, events, output, framesElapsed, c, i,
                   captureStartTime, rawEvents, finalStart, preempted, last>>

\* gb.cpu.onAfterInstruction(opcode) for an opcode other than RETI
InstrHook(pc, bank) ==
    /\ phase = "frame"
    /\ LET st == onAfterInstruction(EngineState, NOP, pc, bank, getGBTime)
       IN  /\ Len(st.fnStack) > Len(fnStack) => Len(events) < MaxEvents
           /\ SetEngine(st)
           /\ preempted' = StillDispatched(st)
    /\ last' = Snapshot("instr", pc, bank, 0)
    /\ UNCHANGED <<config, tables, output, driver, phase, rawEvents, finalStart,
                   frameStarts>>

\* gb.cpu.onAfterInstruction(RETI)
RetiHook ==
    /\ phase = "frame"
    /\ SetEngine(onAfterInstruction(EngineState, RETI, 0, 1, getGBTime))
    /\ last' = Snapshot("reti", 0, 1, 0)
    /\ preempted' = NotInterrupted
    /\ UNCHANGED <<config, tables, output, driver, phase, rawEvents, finalStart,
                   frameStarts>>

\* gb.cpu.onInterrupt(interrupt)
InterruptHook(interrupt) ==
    /\ phase = "frame"
    /\ Len(events) < MaxEvents
    /\ LET st == onInterrupt(EngineState, interrupt, getGBTime)
       IN  /\ SetEngine(st)
           /\ preempted' = Dispatched(st)
    /\ last' = Snapshot("interrupt", 0, 1, interrupt)
    /\ UNCHANGED <<config, tables, output, driver, phase, rawEvents, finalStart,
                   frameStarts>>

\* if (captureStartTime === 0) captureStartTime = frameStartTime, when recording
NextCaptureStart(isRecording, capStart, frameStart) ==
    IF isRecording /\ capStart = 0 THEN frameStart ELSE capStart

\* a wrong capture step, to test the capture property: frames before
\* startFrame are captured too
NextCapturesAlways(caps, mode, isRecording, frameStart, frameNumber) ==
    IF mode = "all" THEN addCapture(caps, frameStart, frameNumber) ELSE caps

\* the capture step of the loop body: only mode "all" records the capture in
\* the trace, and only for a recorded frame
NextCaptures(caps, mode, isRecording, frameStart, frameNumber) ==
    IF isRecording /\ mode = "all" THEN addCapture(caps, frameStart, frameNumber)
    ELSE caps

\* gb.cpu.frame() returns (the emulator has reset its cycle counter); the rest
\* of the loop body
EndFrame ==
    /\ phase = "frame"
    /\ c' = 0
    /\ framesElapsed' = framesElapsed + 1
    /\ captureStartTime' = NextCaptureStart(i >= startFrame, captureStartTime,
                                            frameStartTime)
    /\ captures' = NextCaptures(captures, captureMode, i >= startFrame,
                                frameStartTime, i)
    /\ i' = i + 1
    /\ phase' = "loop"
    /\ last' = [op |-> "none"]
    /\ UNCHANGED <<config, tables, engine, events, endValue, frameStartTime,
                   keyCalls, rawEvents, finalStart, frameStarts, preempted>>

\* after the loop: this.popFramesUntil(); finalizeTrace(this.speedscope,
\* captureStartTime)
Finish ==
    /\ phase = "loop"
    /\ i >= totalFrames
    /\ LET st == popFramesUntil(EngineState, Null, getGBTime)
       IN  /\ fnStack' = st.fnStack
           /\ rawEvents' = st.events
           /\ events' = finalizeTrace(st.events, TRUE, captureStartTime)
    /\ endValue' = EndValue(endValue, events')
    /\ finalStart' = captureStartTime
    /\ phase' = "done"
    /\ last' = Snapshot("shutdown", 0, 1, 0)
    /\ UNCHANGED <<config, tables, currentFnRegion, interruptStack, captures,
                   driver, frameStarts, preempted>>

Next ==
    \/ Initialize
    \/ StartFrame
    \/ \E in \in HookInputs : InstrHook(in[1], in[2])
    \/ RetiHook
    \/ \E interrupt \in Vectors : InterruptHook(interrupt)
    \/ EndFrame
    \/ Finish

Spec == Init /\ [][Next]_vars

---------------------------------------------------------------------------
(* The trace emitter used directly (SpecTrace) *)

\* arguments handed to the emitter
FrameIndices == {0, 1}
Timestamps   == {0, 1, 2}
Starts       == {0, 1}

\* createSpeedscopeTrace: an empty trace; no runner is involved
InitTrace ==
    /\ hasNoi = TRUE
    /\ noiData = <<>>
    /\ captureMode = "none"
    /\ startFrame = 0
    /\ frames = 1
    /\ inputData = <<>>
    /\ phase = "api"
    /\ Constructed

ApiAddOpen(frameIndex, at) ==
    /\ phase = "api"
    /\ Len(events) < MaxApiEvents
    /\ events' = addOpenEvent(events, frameIndex, at)
    /\ UNCHANGED <<config, tables, engine, output, driver, phase, history>>

ApiAddClose(frameIndex, at, start) ==
    /\ phase = "api"
    /\ Len(events) < MaxApiEvents
    /\ events' = addCloseEvent(events, frameIndex, at, start)
    /\ UNCHANGED <<config, tables, engine, output, driver, phase, history>>

\* what a call of finalizeTrace found and was given
FinalizeCall(hasStart, capStart) ==
    [op |-> "finalize", hasStart |-> hasStart, capStart |-> capStart,
     events |-> events, endValue |-> endValue, captures |-> captures,
     again |-> phase = "finalized" /\ last.hasStart = hasStart
                                   /\ last.capStart = capStart]

ApiFinalize(hasStart, capStart) ==
    /\ phase = "api"
    /\ events' = finalizeTrace(events, hasStart, capStart)
    /\ endValue' = EndValue(endValue, events')
    /\ rawEvents' = events
    /\ finalStart' = capStart
    /\ last' = FinalizeCall(hasStart, capStart)
    /\ phase' = "finalized"
    /\ UNCHANGED <<config, tables, engine, captures, driver, frameStarts, preempted>>

NextTrace ==
    \/ \E f \in FrameIndices, at \in Timestamps : ApiAddOpen(f, at)
    \/ \E f \in FrameIndices, at \in Timestamps, start \in Starts : ApiAddClose(f, at, start)
    \/ \E capStart \in Timestamps : ApiFinalize(TRUE, capStart)
    \/ ApiFinalize(FALSE, 0)

SpecTrace == InitTrace /\ [][NextTrace]_vars

---------------------------------------------------------------------------
(* The trace emitter used directly, finalizeTrace called twice            *)
(* (SpecRefinalize)                                                        *)

\* arguments handed to the emitter; the start of a close is not read by
\* finalizeTrace and is fixed
TwiceTimestamps == {0, 1}
TwiceStarts     == {0, 1, 2}

\* addCapture on a trace without capture
ApiAddCapture(at, frameNumber) ==
    /\ phase = "api"
    /\ captures = <<>>
    /\ captures' = addCapture(captures, at, frameNumber)
    /\ UNCHANGED <<config, tables, engine, events, endValue, driver, phase, history>>

\* finalizeTrace on a trace finalized once
ApiFinalizeAgain(hasStart, capStart) ==
    /\ phase = "finalized"
    /\ events' = finalizeTrace(events, hasStart, capStart)
    /\ endValue' = EndValue(endValue, events')
    /\ rawEvents' = events
    /\ finalStart' = capStart
    /\ last' = FinalizeCall(hasStart, capStart)
    /\ phase' = "refinalized"
    /\ UNCHANGED <<config, tables, engine, captures, driver, frameStarts, preempted>>

NextRefinalize ==
    \/ \E f \in FrameIndices, at \in TwiceTimestamps : ApiAddOpen(f, at)
    \/ \E f \in FrameIndices, at \in TwiceTimestamps : ApiAddClose(f, at, 0)
    \/ ApiAddCapture(0, 0)
    \/ \E capStart \in TwiceStarts : ApiFinalize(TRUE, capStart)
    \/ ApiFinalize(FALSE, 0)
    \/ \E capStart \in TwiceStarts : ApiFinalizeAgain(TRUE, capStart)
    \/ ApiFinalizeAgain(FALSE, 0)

SpecRefinalize == InitTrace /\ [][NextRefinalize]_vars

---------------------------------------------------------------------------
(* initialize on arbitrary memory-map text, then the PC resolver (SpecNoi)  *)

\* the texts: every sequence of at most MaxLines of the lines above
NoiTexts == UNION {[1..n -> NoiLines] : n \in 0..MaxLines}

\* program counters handed to the resolver: around the VBL vector, the last
\* address before _main and its entry, both sides of 0x4000, the entry of
\* the banked functions, both sides of 0x8000 and the RAM variable
ResolvePCs == {63, 64, 335, 336, 16383, 16384, 16640, 32767, 32768, 49312}

\* values of mbc.romBankNumber handed to the resolver
ResolveBanks == {0, 1, 2}

InitNoi ==
    /\ hasNoi = TRUE
    /\ noiData \in NoiTexts
    /\ captureMode = "exit"
    /\ startFrame = 0
    /\ frames = 1
    /\ inputData = <<>>
    /\ phase = "new"
    /\ Constructed

\* this.getCurrentFunctionRegion(pc, bank) as the instruction hook calls it;
\* adopt: the hook goes on to store the region found in this.currentFnRegion
Resolve(pc, bank, adopt) ==
    /\ phase = "loop"
    /\ LET newFn == getCurrentFunctionRegion(currentFnRegion, pc, bank)
       IN  /\ last' = [op |-> "resolve", pc |-> pc, bank |-> bank,
                       currentFnRegion |-> currentFnRegion, result |-> newFn]
           /\ currentFnRegion' = IF adopt /\ newFn # Null THEN newFn
                                  ELSE currentFnRegion
    /\ UNCHANGED <<config, tables, fnStack, interruptStack, events, output,
                   driver, phase, rawEvents, finalStart, frameStarts, preempted>>

NextNoi ==
    \/ Initialize
    \/ \E pc \in ResolvePCs, bank \in ResolveBanks, adopt \in BOOLEAN :
          Resolve(pc, bank, adopt)

SpecNoi == InitNoi /\ [][NextNoi]_vars

---------------------------------------------------------------------------
(* The hooks of one frame (SpecHooks) *)

\* the program counters of Spec and an address past the entry of .add_VBL
DeepPCs == PCs \cup {769}

DeepInputs == {in \in DeepPCs \X Banks : in[1] < BANK_SPLIT => in[2] = 1}

\* the values of clock.c the hooks are observed at
ObservedCycles == {0, 4}

InitHooks ==
    /\ hasNoi = TRUE
    /\ noiData = NoiText
    /\ captureMode = "exit"
    /\ startFrame = 0
    /\ frames = 1
    /\ inputData = <<>>
    /\ phase = "new"
    /\ Constructed

\* the emulator executes an instruction: clock.c advances
Advance(cycles) ==
    /\ phase = "frame"
    /\ cycles > c
    /\ c' = cycles
    /\ UNCHANGED <<config, tables, engine, events, output, framesElapsed, i,
                   captureStartTime, frameStartTime, keyCalls, phase, history>>

\* gb.cpu.onAfterInstruction(opcode) for an opcode other than RETI
DeepInstrHook(pc, bank) ==
    /\ phase = "frame"
    /\ LET st == onAfterInstruction(EngineState, NOP, pc, bank, getGBTime)
       IN  /\ Len(st.events) <= MaxHookEvents
           /\ SetEngine(st)
           /\ preempted' = StillDispatched(st)
    /\ last' = Snapshot("instr", pc, bank, 0)
    /\ UNCHANGED <<config, tables, output, driver, phase, rawEvents, finalStart,
                   frameStarts>>

\* gb.cpu.onAfterInstruction(RETI)
DeepRetiHook ==
    /\ phase = "frame"
    /\ LET st == onAfterInstruction(EngineState, RETI, 0, 1, getGBTime)
       IN  /\ Len(st.events) <= MaxHookEvents
           /\ SetEngine(st)
    /\ last' = Snapshot("reti", 0, 1, 0)
    /\ preempted' = NotInterrupted
    /\ UNCHANGED <<config, tables, output, driver, phase, rawEvents, finalStart,
                   frameStarts>>

\* gb.cpu.onInterrupt(interrupt)
DeepInterruptHook(interrupt) ==
    /\ phase = "frame"
    /\ LET st == onInterrupt(EngineState, interrupt, getGBTime)
       IN  /\ Len(st.events) <= MaxHookEvents
           /\ SetEngine(st)
           /\ preempted' = Dispatched(st)
    /\ last' = Snapshot("interrupt", 0, 1, interrupt)
    /\ UNCHANGED <<config, tables, output, driver, phase, rawEvents, finalStart,
                   frameStarts>>

NextHooks ==
    \/ Initialize
    \/ StartFrame
    \/ \E cycles \in ObservedCycles : Advance(cycles)
    \/ \E in \in DeepInputs : DeepInstrHook(in[1], in[2])
    \/ DeepRetiHook
    \/ \E interrupt \in Vectors : DeepInterruptHook(interrupt)

SpecHooks == InitHooks /\ [][NextHooks]_vars

---------------------------------------------------------------------------
(* The frame loop replaying input events (SpecInput) *)

InputKeys == {"A", "B"}

\* the entries of options.inputData: a frame, keys to release and keys to
\* press (a missing release or press is the empty list)
InputEntries ==
    [frame : {0, 1}, release : {<<>>, <<"A">>}, press : {<<>>, <<"B">>, <<"A">>}]

InputLists == UNION {[1..n -> InputEntries] : n \in 0..MaxInputs}

\* a run without symbols: the hooks record nothing that the input replay reads
InitInput ==
    /\ hasNoi = FALSE
    /\ noiData = <<>>
    /\ captureMode = "exit"
    /\ startFrame \in StartFrames
    /\ frames \in 1..(MaxFrames - startFrame)
    /\ inputData \in InputLists
    /\ phase = "new"
    /\ Constructed

NextInput ==
    \/ Initialize
    \/ StartFrame
    \/ EndFrame
    \/ Finish

SpecInput == InitInput /\ [][NextInput]_vars

---------------------------------------------------------------------------
(* Properties *)

\* The walk of a reader of the trace: the number of opens of frame index f
\* still unmatched after the first k events (a close at depth 0 matches
\* nothing and leaves the depth at 0).
RECURSIVE DepthAfter(_, _, _)
DepthAfter(evs, f, k) ==
    IF k = 0 THEN 0
    ELSE LET d == DepthAfter(evs, f, k - 1)
         IN  IF evs[k].frame # f THEN d
             ELSE IF evs[k].type = "O" THEN d + 1
             ELSE IF d > 0 THEN d - 1 ELSE 0

IsClose(evs, k) == evs[k].type = "C"
IsOpen(evs, k)  == evs[k].type = "O"

\* the close at k finds no unmatched open of its frame index
UnmatchedClose(evs, k) ==
    IsClose(evs, k) /\ DepthAfter(evs, evs[k].frame, k - 1) = 0

\* the open at a and the close at b are paired by the per-symbol LIFO walk
Paired(evs, a, b) ==
    /\ a < b
    /\ IsOpen(evs, a) /\ IsClose(evs, b)
    /\ evs[a].frame = evs[b].frame
    /\ DepthAfter(evs, evs[b].frame, b - 1) > 0
    /\ DepthAfter(evs, evs[a].frame, a) = DepthAfter(evs, evs[b].frame, b - 1)
    /\ \A m \in (a + 1)..(b - 1) :
          (IsOpen(evs, m) /\ evs[m].frame = evs[a].frame)
             => DepthAfter(evs, evs[a].frame, m) > DepthAfter(evs, evs[a].frame, a)

\* the open at a is still unmatched at the end of the walk
UnmatchedOpen(evs, a) ==
    IsOpen(evs, a) /\ \A b \in 1..Len(evs) : ~Paired(evs, a, b)

Range(seq) == {seq[k] : k \in 1..Len(seq)}

\* C1: in the trace a run returns, walking the events in order with one LIFO
\* per symbol index, every close finds an earlier unmatched open of the same
\* symbol index: there is no unmatched close.
C1_NoUnmatchedClose ==
    phase = "done" => \A k \in 1..Len(events) : ~UnmatchedClose(events, k)

\* a finished run whose filter dropped a pair that ended before the capture
\* start and kept a pair that straddles it
C1_Witness ==
    /\ phase = "done"
    /\ Len(events) < Len(rawEvents)
    /\ \E k \in 1..Len(events) :
          IsClose(events, k) /\ events[k].start < finalStart /\ events[k].at >= finalStart

IsPrefix(p, q) == Len(p) <= Len(q) /\ SubSeq(q, 1, Len(p)) = p

\* the events a hook appended
Emitted == SubSeq(events, Len(last.events) + 1, Len(events))

\* C2: after an interrupt is dispatched with no interrupt in flight and call
\* stack S, no instruction of the handler closes a frame of S, and right after
\* the next RETI the call stack is exactly S.
C2_InterruptedFramesStayOpen ==
    /\ (phase = "frame" /\ preempted.inFlight) => IsPrefix(preempted.fnStack, fnStack)
    /\ (last.op = "reti" /\ last.preempted.inFlight) => fnStack = last.preempted.fnStack

\* C3: the capture start handed to finalizeTrace is the global cycle sampled
\* at the start of frame startFrame, the first recorded frame.
C3_CaptureStartIsFirstRecordedFrame ==
    phase = "done" => finalStart = frameStarts[startFrame + 1]

\* index of the topmost frame of stack that carries symbol (0 if none)
TopmostIndex(stack, symbol) ==
    LET hits == {k \in 1..Len(stack) : stack[k].symbol = symbol}
    IN  IF hits = {} THEN 0 ELSE CHOOSE k \in hits : \A m \in hits : m <= k

\* C5: one RETI with an interrupt in flight closes exactly the topmost frame
\* of that interrupt and every frame above it, removes exactly one entry of
\* the interrupt stack and closes no frame below the interrupt frame.
C5_RetiUnwindsOneInterrupt ==
    (last.op = "reti" /\ last.interruptStack # <<>>) =>
        LET vec == last.interruptStack[Len(last.interruptStack)]
            top == TopmostIndex(last.fnStack, vec.symbol)
        IN  /\ top > 0
            /\ fnStack = SubSeq(last.fnStack, 1, top - 1)
            /\ Len(Emitted) = Len(last.fnStack) - top + 1
            /\ \A k \in 1..Len(Emitted) : IsClose(Emitted, k)
            /\ Len(interruptStack) = Len(last.interruptStack) - 1

\* C6: a RETI seen while the interrupt stack is empty emits no event and
\* leaves the call stack, the interrupt stack and the cached current region
\* as they were.
C6_RetiWithoutInterruptIsIgnored ==
    (last.op = "reti" /\ last.interruptStack = <<>>) =>
        /\ events = last.events
        /\ fnStack = last.fnStack
        /\ interruptStack = <<>>
        /\ currentFnRegion = last.currentFnRegion

\* a RETI has just been handled with no interrupt in flight, frames on the
\* call stack and a cached current region
C6_Witness ==
    /\ last.op = "reti"
    /\ last.interruptStack = <<>>
    /\ last.fnStack # <<>>
    /\ last.currentFnRegion # Null
    /\ last.events # <<>>

\* the event with emission number n is among evs
Holds(evs, n) == \E k \in 1..Len(evs) : evs[k].n = n

\* the events finalizeTrace walks: the trace's events after its sort
Walked == SortEvents(rawEvents)

\* C4: finalize(capture_start_cycle) removes a pair of the per-symbol LIFO
\* walk over the sorted events if and only if its close lies before the
\* capture start, and keeps every open the walk leaves unmatched.
C4_FilterDropsOnlyPairsBeforeStart ==
    (phase = "finalized" /\ last.hasStart) =>
        /\ \A a, b \in 1..Len(Walked) :
              Paired(Walked, a, b) =>
                 /\ Holds(events, Walked[a].n) <=> Walked[b].at >= finalStart
                 /\ Holds(events, Walked[b].n) <=> Walked[b].at >= finalStart
        /\ \A a \in 1..Len(Walked) :
              UnmatchedOpen(Walked, a) => Holds(events, Walked[a].n)

\* a finalized trace that had a pair before the capture start and an open
\* without close
C4_Witness ==
    /\ phase = "finalized" /\ last.hasStart
    /\ \E a, b \in 1..Len(Walked) :
          Paired(Walked, a, b) /\ Walked[b].at < finalStart
    /\ \E a \in 1..Len(Walked) : UnmatchedOpen(Walked, a)

\* a finalized trace that had a pair opened before the capture start and
\* closed exactly at it
C4_WitnessStraddle ==
    /\ phase = "finalized" /\ last.hasStart
    /\ \E a, b \in 1..Len(Walked) :
          Paired(Walked, a, b) /\ Walked[a].at < finalStart /\ Walked[b].at = finalStart

\* C7: every close event appended to the trace, by whatever path, has
\* at >= start.
C7_CloseNotBeforeItsOpen ==
    \A k \in 1..Len(events) : IsClose(events, k) => events[k].at >= events[k].start

\* C8: in the finalized trace of a run, every close records the cycle and
\* the frame index of the open the per-symbol LIFO walk pairs it with.
C8_CloseRecordsPairedOpen ==
    phase = "done" =>
        \A a, b \in 1..Len(events) :
            Paired(events, a, b) =>
                events[b].start = events[a].at /\ events[b].frame = events[a].frame

\* C9: without a memory map the trace still has the five interrupt-vector
\* frames, and every event of an interrupt dispatch references one of them.
C9_MissingMapKeepsVectorFrames ==
    (~hasNoi /\ phase \in {"loop", "frame", "done"} /\ events # <<>>) =>
        /\ Len(SharedFrames) = Len(INTERRUPTS)
        /\ \A k \in 1..Len(events) :
              events[k].frame >= 0 /\ events[k].frame < Len(SharedFrames)

\* C10: after finalizeTrace the events are ordered by at ascending, on equal
\* at every open precedes every close, and events of the same type and at
\* keep their emission order.
C10_FinalOrder ==
    phase \in {"finalized", "done"} =>
        \A a, b \in 1..Len(events) :
            a < b =>
                /\ events[a].at <= events[b].at
                /\ (events[a].at = events[b].at) =>
                      /\ ~(IsClose(events, a) /\ IsOpen(events, b))
                      /\ (events[a].type = events[b].type) => events[a].n < events[b].n

\* a finalized trace of three events of one timestamp, none dropped, whose
\* close was emitted first
C10_Witness ==
    /\ phase = "finalized"
    /\ Len(events) = 3 /\ Len(rawEvents) = 3
    /\ IsClose(rawEvents, 1) /\ IsOpen(rawEvents, 2) /\ IsOpen(rawEvents, 3)
    /\ \A k \in 1..3 : rawEvents[k].at = rawEvents[1].at
    /\ rawEvents[2].frame # rawEvents[3].frame

\* C11: after finalizeTrace, endValue is the largest at of the events left,
\* and 0 when no event is left.
C11_EndValueIsMaxRetained ==
    phase \in {"finalized", "refinalized"} =>
        endValue = IF events = <<>> THEN 0 ELSE MaxAt(events)

\* C12: finalizeTrace called again with the capture start of the call before
\* leaves the events (order and content), the captures and endValue as that
\* call left them.
C12_FinalizeIsIdempotent ==
    (phase = "refinalized" /\ last.again) =>
        /\ events = last.events
        /\ endValue = last.endValue
        /\ captures = last.captures

\* finalizeTrace has been called twice with one capture start on a trace
\* with a capture, and left a pair and an open without close
C12_Witness ==
    /\ phase = "refinalized" /\ last.again /\ last.hasStart
    /\ captures # <<>>
    /\ \E a, b \in 1..Len(events) : Paired(events, a, b)
    /\ \E a \in 1..Len(events) : UnmatchedOpen(events, a)

\* C13: the Symbol Map begins with the five interrupt vectors, bank 0, in
\* order, no two of its entries have the same (bank, addr), and the entry of
\* a (bank, addr) comes from the first accepted line that has it.
C13_SymbolMapHasNoDuplicate ==
    phase = "loop" =>
        /\ Len(noiLookup) >= Len(INTERRUPTS)
        /\ \A k \in 1..Len(INTERRUPTS) :
              noiLookup[k] = [symbol |-> INTERRUPTS[k].symbol,
                              addr |-> INTERRUPTS[k].addr, bank |-> 0]
        /\ \A a, b \in 1..Len(noiLookup) :
              (noiLookup[a].addr = noiLookup[b].addr
                  /\ noiLookup[a].bank = noiLookup[b].bank) => a = b
        /\ \A k \in (Len(INTERRUPTS) + 1)..Len(noiLookup) :
              \E n \in 1..Len(noiData) :
                 /\ SymbolClean(noiData[n]) = noiLookup[k].symbol
                 /\ LineAddr(noiData[n]) = noiLookup[k].addr
                 /\ LineBank(noiData[n]) = noiLookup[k].bank
                 /\ \A m \in 1..(n - 1) :
                       ~(LineAddr(noiData[m]) = noiLookup[k].addr
                            /\ LineBank(noiData[m]) = noiLookup[k].bank)

\* the regions of every bank
AllRegions ==
    UNION {{regionsByBank[bank][k] : k \in 1..Len(regionsByBank[bank])}
              : bank \in DOMAIN regionsByBank}

\* C14: every region has addr <= end, and the addr of every symbol lies in
\* [0, bankMax] of its bank.
C14_RegionsLieInTheirBank ==
    phase = "loop" =>
        /\ \A r \in AllRegions : r.addr <= r.end
        /\ \A k \in 1..Len(noiLookup) :
              noiLookup[k].addr >= 0 /\ noiLookup[k].addr <= BankMax(noiLookup[k].bank)

\* C15: the regions of a bank, in addr order, tile the bank: each region
\* ends right before the next begins, the last ends at bankMax, and no two
\* regions share an address.
C15_RegionsTileTheBank ==
    phase = "loop" =>
        \A bank \in DOMAIN regionsByBank :
            LET regs == regionsByBank[bank]
            IN  /\ \A k \in 1..(Len(regs) - 1) :
                      /\ regs[k].addr <= regs[k + 1].addr
                      /\ regs[k].end = regs[k + 1].addr - 1
                /\ regs[Len(regs)].end = BankMax(bank)
                /\ \A a, b \in 1..Len(regs) :
                      a # b => ~\E pc \in Max(regs[a].addr, regs[b].addr)
                                           ..Min(regs[a].end, regs[b].end) : TRUE

\* C16: the resolver returns the one region of the target bank (bank 0
\* below 0x4000, else the mapped ROM bank) whose [addr, end] holds pc, or
\* none if there is none, whatever region is cached.
C16_ResolverFindsContainingRegion ==
    last.op = "resolve" =>
        LET regs == RegionsByBank(IF last.pc < BANK_SPLIT THEN 0 ELSE last.bank)
            hits == {k \in 1..Len(regs) :
                        regs[k].addr <= last.pc /\ last.pc <= regs[k].end}
        IN  /\ Cardinality(hits) <= 1
            /\ hits = {} => last.result = Null
            /\ \A k \in hits : last.result = regs[k]

\* the resolver has answered from its cache for a pc that is the last
\* address of a banked region
C16_Witness ==
    /\ last.op = "resolve"
    /\ last.currentFnRegion # Null
    /\ last.result = last.currentFnRegion
    /\ last.pc >= BANK_SPLIT
    /\ last.pc = last.result.end

\* C17: in capture mode all the trace's captures are, in frame order, one
\* per recorded frame completed so far and none for a frame before
\* startFrame: entry k (from 0) has frameNumber startFrame + k and at the
\* global cycle sampled at the start of that frame.
C17_OneCapturePerRecordedFrame ==
    captureMode = "all" =>
        /\ Len(captures) = Max(0, i - startFrame)
        /\ \A k \in 1..Len(captures) :
              /\ captures[k].frameNumber = startFrame + k - 1
              /\ captures[k].at = frameStarts[startFrame + k]

\* a finished run in mode all that skipped a frame and recorded one
C17_Witness ==
    /\ phase = "done" /\ captureMode = "all"
    /\ startFrame = 1
    /\ Len(captures) = 1 /\ captures[1].frameNumber = 1
    /\ captures[1].at = CYCLES_PER_FRAME

\* the events shutdown appended to those the frame loop left
ShutdownCloses == SubSeq(rawEvents, Len(last.events) + 1, Len(rawEvents))

\* C18: shutdown closes every frame left on the call stack, top frame
\* first, one close event per frame, before finalizeTrace runs; the call
\* stack is then empty and every open event emitted in the run has a close
\* event emitted for it.
C18_ShutdownClosesAllFrames ==
    phase = "done" =>
        LET left == last.fnStack
        IN  /\ fnStack = <<>>
            /\ SubSeq(rawEvents, 1, Len(last.events)) = last.events
            /\ Len(ShutdownCloses) = Len(left)
            /\ \A k \in 1..Len(left) :
                  /\ IsClose(ShutdownCloses, k)
                  /\ ShutdownCloses[k].start = left[Len(left) - k + 1].clock
                  /\ ShutdownCloses[k].frame = NoiIndex(left[Len(left) - k + 1].symbol)
            /\ \A e \in Range(rawEvents) :
                  e.type = "O" =>
                     Cardinality({k \in 1..Len(rawEvents) :
                                     /\ IsOpen(rawEvents, k)
                                     /\ rawEvents[k].frame = e.frame
                                     /\ rawEvents[k].at = e.at})
                     = Cardinality({k \in 1..Len(rawEvents) :
                                     /\ IsClose(rawEvents, k)
                                     /\ rawEvents[k].frame = e.frame
                                     /\ rawEvents[k].start = e.at})

\* a finished run whose frame loop left two frames of different symbols on
\* the call stack
C18_Witness ==
    /\ phase = "done"
    /\ Len(last.fnStack) = 2
    /\ last.fnStack[1].symbol # last.fnStack[2].symbol
    /\ hasNoi

\* C19: the open event of a frame pushed by the instruction hook carries
\* the Symbol Map position of the region entered.
C19_OpenCarriesMapPosition ==
    (last.op = "instr" /\ Len(fnStack) = Len(last.fnStack) + 1) =>
        LET e == events[Len(events)]
        IN  /\ e.type = "O"
            /\ e.frame >= 0 /\ e.frame < Len(noiLookup)
            /\ noiLookup[e.frame + 1].addr = currentFnRegion.addr
            /\ noiLookup[e.frame + 1].bank = currentFnRegion.bank

\* C20: an instruction whose pc is the first address of a region that is
\* not ignored and is not the cached one pushes exactly one frame for it,
\* entered at the current global cycle with the former stack depth as indent,
\* emits one open event and caches the region.
C20_EntryPushesOneFrame ==
    last.op = "instr" =>
        LET newFn == getCurrentFunctionRegion(last.currentFnRegion, last.pc, last.bank)
        IN  (/\ newFn # Null
             /\ newFn # last.currentFnRegion
             /\ newFn.symbol \notin IGNORE_SYMBOLS
             /\ last.pc = newFn.addr) =>
                /\ fnStack = Append(last.fnStack,
                                    NewFrame(newFn.symbol, newFn.addr, last.clock,
                                             Len(last.fnStack)))
                /\ Len(events) = Len(last.events) + 1
                /\ SubSeq(events, 1, Len(last.events)) = last.events
                /\ IsOpen(events, Len(events))
                /\ events[Len(events)].at = last.clock
                /\ interruptStack = last.interruptStack
                /\ currentFnRegion = newFn

\* a banked function has just been entered at its first address while an
\* interrupt was in flight and another region was cached
C20_Witness ==
    /\ last.op = "instr"
    /\ last.interruptStack # <<>>
    /\ last.currentFnRegion # Null
    /\ last.pc >= BANK_SPLIT
    /\ Len(fnStack) = Len(last.fnStack) + 1
    /\ currentFnRegion # last.currentFnRegion
    /\ last.pc = currentFnRegion.addr

\* the region the resolver returned to the last instruction hook
Landed == getCurrentFunctionRegion(last.currentFnRegion, last.pc, last.bank)

\* the last hook was an instruction that reached Case B: its pc resolved to a
\* region that is not the cached one and is not ignored, past its first address
CaseB ==
    /\ last.op = "instr"
    /\ Landed # Null
    /\ Landed # last.currentFnRegion
    /\ Landed.symbol \notin IGNORE_SYMBOLS
    /\ last.pc # Landed.addr

\* evs, emitted by the last hook, are the closes of the frames of stack above
\* position top, topmost first, each with the entry cycle of its frame
ClosesFramesAbove(evs, stack, top) ==
    /\ IsPrefix(last.events, events)
    /\ Len(evs) = Len(stack) - top
    /\ \A k \in 1..Len(evs) :
          /\ IsClose(evs, k)
          /\ evs[k].frame = NoiIndex(stack[Len(stack) - k + 1].symbol)
          /\ evs[k].start = stack[Len(stack) - k + 1].clock

\* C21: in Case B, when the symbol of the region landed in is on the call
\* stack, every frame above the topmost frame with that symbol is popped with
\* a close event, that frame and the frames below it stay as they were with no
\* close event, and the cached current region becomes the region landed in.
C21_PopToKeepsTarget ==
    (CaseB /\ fnStackContains(last.fnStack, Landed.symbol)) =>
        LET top == TopmostIndex(last.fnStack, Landed.symbol)
        IN  /\ fnStack = SubSeq(last.fnStack, 1, top)
            /\ fnStack[Len(fnStack)].symbol = Landed.symbol
            /\ ClosesFramesAbove(Emitted, last.fnStack, top)
            /\ currentFnRegion = Landed

\* a landing past the first address of a function that has a frame below the
\* top of the call stack has just popped the frames above it
C21_Witness ==
    /\ CaseB
    /\ fnStackContains(last.fnStack, Landed.symbol)
    /\ TopmostIndex(last.fnStack, Landed.symbol) < Len(last.fnStack)
    /\ Len(fnStack) < Len(last.fnStack)
    /\ fnStack # <<>>

\* C22: an interrupt dispatch first closes every frame of an interrupt in
\* flight and every frame above it, then pushes a frame for the dispatched
\* vector with the stack depth of that moment as indent and emits one open;
\* afterwards the interrupt stack holds exactly the dispatched vector.
C22_DispatchResetsInterruptContext ==
    last.op = "interrupt" =>
        LET vec    == INTERRUPTS[last.vec + 1]
            bottom == last.preempted.frameAt
            kept   == IF bottom = 0 THEN last.fnStack
                      ELSE SubSeq(last.fnStack, 1, bottom - 1)
        IN  /\ Emitted # <<>>
            /\ ClosesFramesAbove(SubSeq(Emitted, 1, Len(Emitted) - 1),
                                 last.fnStack, Len(kept))
            /\ IsOpen(Emitted, Len(Emitted))
            /\ Emitted[Len(Emitted)].at = last.clock
            /\ fnStack = Append(kept, NewFrame(vec.symbol, vec.addr, last.clock,
                                               Len(kept)))
            /\ interruptStack = <<vec>>

\* C23: when the resolver returns no region for the pc and bank of an
\* instruction, no event is emitted, the call stack and the interrupt stack
\* are unchanged and the cached current region is cleared.
C23_NoRegionClearsCache ==
    (last.op = "instr" /\ Landed = Null) =>
        /\ events = last.events
        /\ fnStack = last.fnStack
        /\ interruptStack = last.interruptStack
        /\ currentFnRegion = Null

\* the last hook left the call stack, the interrupt stack, the event list and
\* the cached current region as it found them
EngineUntouched ==
    /\ events = last.events
    /\ fnStack = last.fnStack
    /\ interruptStack = last.interruptStack
    /\ currentFnRegion = last.currentFnRegion

\* C24: a landing past the first address of a region, with pc < 0x4000, no
\* interrupt in flight and the region's symbol not on the call stack, is
\* ignored: no frame is pushed, no event is emitted and the engine state,
\* the cached current region included, is unchanged.
C24_Bank0LandingIsIgnored ==
    (/\ last.op = "instr"
     /\ Landed # Null
     /\ last.pc # Landed.addr
     /\ last.pc < BANK_SPLIT
     /\ last.interruptStack = <<>>
     /\ ~fnStackContains(last.fnStack, Landed.symbol)) => EngineUntouched

\* C25: a landing past the first address of a region whose symbol is not on
\* the call stack, while an interrupt is in flight, changes nothing: no frame
\* is pushed or popped, no event is emitted and the cached current region is
\* not updated.
C25_LandingInHandlerIsIgnored ==
    (/\ last.op = "instr"
     /\ Landed # Null
     /\ last.pc # Landed.addr
     /\ ~fnStackContains(last.fnStack, Landed.symbol)
     /\ last.interruptStack # <<>>) => EngineUntouched

\* during an interrupt an instruction has just landed past the first address
\* of a banked function that is neither cached, nor ignored, nor on the stack
C25_Witness ==
    /\ CaseB
    /\ ~fnStackContains(last.fnStack, Landed.symbol)
    /\ last.interruptStack # <<>>
    /\ last.fnStack # <<>>
    /\ last.pc >= BANK_SPLIT

C27_IgnoredSymbolChangesNothing ==
    (/\ last.op = "instr"
     /\ Landed # Null
     /\ Landed.symbol \in IGNORE_SYMBOLS) => EngineUntouched

\* an instruction at the first address of .add_VBL has just been handled with
\* another region cached and its frame on the call stack
C27_Witness ==
    /\ last.op = "instr"
    /\ Landed # Null
    /\ Landed.symbol \in IGNORE_SYMBOLS
    /\ last.pc = Landed.addr
    /\ last.currentFnRegion # Null
    /\ last.fnStack # <<>>

\* the same for an instruction past the first address of .add_VBL
C27_WitnessMidRegion ==
    /\ last.op = "instr"
    /\ Landed # Null
    /\ Landed.symbol \in IGNORE_SYMBOLS
    /\ last.pc # Landed.addr
    /\ last.currentFnRegion # Null
    /\ last.fnStack # <<>>

\* the calls made to gb.input at loop index f, in order
CallsAt(f) == SelectSeq(keyCalls, LAMBDA call : call.at = f)

\* the keys an entry lists under op
KeysOf(entry, op) == IF op = "release" THEN entry.release ELSE entry.press

\* the number of times the entries of inputData with frame f ask for key
\* under op ("release" or "press")
Asked(f, op, key) ==
    Cardinality(UNION {
        {<<k, m>> : m \in {n \in 1..Len(KeysOf(inputData[k], op)) :
                              /\ inputData[k].frame = f
                              /\ KeysOf(inputData[k], op)[n] = key}} :
        k \in 1..Len(inputData)})

\* the number of calls of op for key made at loop index f
Called(f, op, key) ==
    Cardinality({k \in 1..Len(keyCalls) :
                    /\ keyCalls[k].at = f
                    /\ keyCalls[k].op = op
                    /\ keyCalls[k].key = key})

\* C28: when the emulator is advanced for frame f, every input event whose
\* frame is f has been applied at loop index f, all releases before all
\* presses, also when several entries of the list carry the frame f, and no
\* event of another frame has been applied at f.
C28_InputOfFrameIsApplied ==
    \A f \in 0..(Len(frameStarts) - 1) :
        /\ \A op \in {"release", "press"}, key \in InputKeys :
              Called(f, op, key) = Asked(f, op, key)
        /\ \A a, b \in 1..Len(CallsAt(f)) :
              (CallsAt(f)[a].op = "press" /\ CallsAt(f)[b].op = "release") => b < a

\* position of the last entry of pending that was opened with frame index
\* frame at cycle at (0 if none)
LastPending(pending, frame, at) ==
    LET hits == {k \in 1..Len(pending) :
                    pending[k].frame = frame /\ pending[k].at = at}
    IN  IF hits = {} THEN 0 ELSE CHOOSE k \in hits : \A m \in hits : m <= k

\* the open events among the first n of evs that no later one of them has
\* closed, in order: a close takes away the last open with its frame index
\* and its start
RECURSIVE PendingOpens(_, _)
PendingOpens(evs, n) ==
    IF n = 0 THEN <<>>
    ELSE LET before == PendingOpens(evs, n - 1)
             e      == evs[n]
         IN  IF e.type = "O" THEN Append(before, [frame |-> e.frame, at |-> e.at])
             ELSE LET k == LastPending(before, e.frame, e.start)
                  IN  IF k = 0 THEN before
                      ELSE SubSeq(before, 1, k - 1) \o SubSeq(before, k + 1, Len(before))

\* the closes among evs
ClosesIn(evs) == Cardinality({k \in 1..Len(evs) : IsClose(evs, k)})

\* C29: at every point between the hooks of a run, before finalizeTrace, the
\* open events not yet followed by their close are, in order, those of the
\* frames on the call stack (the symbol's index, at = the frame's entry
\* cycle); and a hook emits one close for every frame it pops, then one open
\* for every frame it pushes, and nothing else.
C29_OpenEventsMirrorCallStack ==
    /\ phase \in {"loop", "frame"} =>
          PendingOpens(events, Len(events))
             = [k \in 1..Len(fnStack) |->
                   [frame |-> NoiIndex(fnStack[k].symbol), at |-> fnStack[k].clock]]
    /\ (phase = "frame" /\ last.op \in {"instr", "reti", "interrupt"}) =>
          LET closes == ClosesIn(Emitted)
              opens  == Len(Emitted) - closes
              kept   == Len(last.fnStack) - closes
          IN  /\ kept >= 0
              /\ Len(fnStack) = kept + opens
              /\ SubSeq(fnStack, 1, kept) = SubSeq(last.fnStack, 1, kept)
              /\ ClosesFramesAbove(SubSeq(Emitted, 1, closes), last.fnStack, kept)
              /\ \A k \in 1..opens :
                    /\ IsOpen(Emitted, closes + k)
                    /\ Emitted[closes + k].frame = NoiIndex(fnStack[kept + k].symbol)
                    /\ Emitted[closes + k].at = fnStack[kept + k].clock

\* an interrupt dispatch has just closed the frame of the interrupt in flight
\* and opened the new vector's frame above a frame that stays open, at a
\* later cycle than that frame's entry
C29_Witness ==
    /\ phase = "frame"
    /\ last.op = "interrupt"
    /\ Len(Emitted) = 2
    /\ Len(fnStack) = 2
    /\ fnStack[1].clock < fnStack[2].clock

\* C30: every entry of the interrupt stack has a frame with its vector's
\* symbol on the call stack, whatever instruction hooks, dispatches and RETIs
\* came before.
C30_InterruptInFlightHasFrame ==
    \A k \in 1..Len(interruptStack) :
        fnStackContains(fnStack, interruptStack[k].symbol)

\* the walk of the first n events of evs with one global stack of frame
\* indices: an open pushes its index, a close pops the top; ok tells whether
\* every close so far found its own index on top
RECURSIVE NestingWalk(_, _)
NestingWalk(evs, n) ==
    IF n = 0 THEN [ok |-> TRUE, stack |-> <<>>]
    ELSE LET w == NestingWalk(evs, n - 1)
             e == evs[n]
         IN  IF e.type = "O" THEN [w EXCEPT !.stack = Append(@, e.frame)]
             ELSE IF w.stack # <<>> /\ w.stack[Len(w.stack)] = e.frame
             THEN [w EXCEPT !.stack = SubSeq(@, 1, Len(@) - 1)]
             ELSE [ok |-> FALSE,
                   stack |-> IF w.stack = <<>> THEN <<>>
                             ELSE SubSeq(w.stack, 1, Len(w.stack) - 1)]

\* C31: the finalized event list of a run is properly nested as one global
\* stack: walking it in order, every close closes the most recently opened
\* frame that is still open, also when a close and an open were emitted at
\* the same cycle, as by an interrupt dispatch that unwinds the interrupt in
\* flight and opens the new vector.
C31_FinalTraceIsNested ==
    phase = "done" => NestingWalk(events, Len(events)).ok

\* the region the tables give for the pc and bank of the last instruction
\* hook, whatever is cached
Entered == getCurrentFunctionRegion(Null, last.pc, last.bank)

\* C32: whenever a region is cached and the call stack is not empty, the
\* cached region's symbol is that of the top frame; so an instruction at the
\* first address of a region that is not ignored and whose frame is not on
\* top of the call stack is not taken for the cached region: it pushes a
\* frame.
C32_CacheIsTopFrame ==
    /\ (currentFnRegion # Null /\ fnStack # <<>>) =>
          currentFnRegion.symbol = fnStack[Len(fnStack)].symbol
    /\ (/\ last.op = "instr"
        /\ Entered # Null
        /\ last.pc = Entered.addr
        /\ Entered.symbol \notin IGNORE_SYMBOLS
        /\ (last.fnStack = <<>>
            \/ last.fnStack[Len(last.fnStack)].symbol # Entered.symbol)) =>
          Len(fnStack) = Len(last.fnStack) + 1

====
